---- MODULE Spec2Model ----
(***************************************************************************)
(* Limit-order-book matching engine: Intake (order.service.js), Ledger and *)
(* idempotency gate (persistence.service.js), job queue (config/queue.js)  *)
(* and the single-consumer matching engine (matching.engine.js) with its   *)
(* Redis order book.                                                       *)
(*                                                                         *)
(* Quantities are counted in units of 1e-8, the step of NUMERIC(19,8), so  *)
(* the engine's EPSILON = 1e-8 is one unit.  Prices are small integers.    *)
(* Strings that name Redis keys, hash fields and sorted-set members are    *)
(* pairs <<format, number>>: "js" is the text JavaScript gives a Number    *)
(* ("70000"), "pg" the text node-postgres gives a NUMERIC(19,8) column     *)
(* ("70000.00000000").  Both parse to the same number; they are different  *)
(* strings.  Idempotency keys are 1, 2, ...; 0 is a missing key.           *)
(***************************************************************************)
EXTENDS Integers, Sequences, FiniteSets, TLC

\* ---------------------------------------------------------------- bounds
MaxSubs == 3
MaxProcs == 2
MaxPrice == 2
MaxQty == 4
MaxCancels == 1
MaxExpire == 1
MaxQueue == 2
MaxLevels == 2
MaxFaults == 1

\* ------------------------------------------------------ program constants
EPSILON == 1

IdemKeys == 1..MaxSubs
Procs == 1..MaxProcs
Sides == {"buy", "sell"}
Types == {"limit", "market"}
Terminal == {"filled", "cancelled", "rejected"}
BookSides == {"bids", "asks"}

\* ------------------------------------------------- strings and numbers
JsStr(n) == <<"js", n>>
PgStr(n) == <<"pg", n>>
Num(s) == s[2]
PriceStrs == {JsStr(n) : n \in 1..MaxPrice} \cup {PgStr(n) : n \in 1..MaxPrice}

\* the taker's need taken whatever the maker has
Min_first(a, b) == a

Min(a, b) == IF a <= b THEN a ELSE b

Put(f, k, v) == [x \in (DOMAIN f) \cup {k} |-> IF x = k THEN v ELSE f[x]]
Del(f, k) == [x \in (DOMAIN f) \ {k} |-> f[x]]

RECURSIVE LRem(_, _)
LRem(list, id) ==
  IF list = <<>> THEN <<>>
  ELSE IF Head(list) = id THEN Tail(list)
  ELSE <<Head(list)>> \o LRem(Tail(list), id)

\* ------------------------------------------------------------- payloads
BasePayload ==
  [idempotency_key |-> 1, client_id |-> "c1", instrument |-> "BTC-USD",
   side |-> "buy", type |-> "limit", price |-> 1, quantity |-> 2]

\* Quantities above EPSILON: an order of at most EPSILON fails the while test of
\* processMatchingLoop at once and is neither matched nor rested.
Quantities == (EPSILON + 1)..MaxQty

ValidPayloads ==
  { [BasePayload EXCEPT !.idempotency_key = k, !.side = s, !.price = p, !.quantity = q] :
      k \in IdemKeys, s \in Sides, p \in 1..MaxPrice, q \in Quantities }
  \cup
  { [BasePayload EXCEPT !.idempotency_key = k, !.side = s, !.type = "market",
                        !.price = 0, !.quantity = q] :
      k \in IdemKeys, s \in Sides, q \in Quantities }

InvalidPayloads ==
  { [BasePayload EXCEPT !.idempotency_key = 0],
    [BasePayload EXCEPT !.client_id = ""],
    [BasePayload EXCEPT !.instrument = ""],
    [BasePayload EXCEPT !.side = "hold"],
    [BasePayload EXCEPT !.type = "stop"],
    [BasePayload EXCEPT !.quantity = 0],
    [BasePayload EXCEPT !.price = 0] }

Payloads == ValidPayloads \cup InvalidPayloads

NoPayload ==
  [idempotency_key |-> 0, client_id |-> "", instrument |-> "",
   side |-> "", type |-> "", price |-> 0, quantity |-> 0]

\* ---------------------------------------------------------------- state
VARIABLES
  idem,        \* Redis keys idempotency:<key> that exist
  epoch,       \* per key, how many times its TTL has run out
  orders,      \* Postgres table orders; order_id is the row's index
  trades,      \* Postgres table trades, in insertion order
  queue,       \* BullMQ queue order-processing, waiting jobs, oldest first
  hashOrders,  \* Redis hash orders: order_id -> {quantity, total_filled_quantity}
  prices,      \* Redis sorted sets bids:prices and asks:prices (their members)
  lists,       \* Redis lists bids:<price> and asks:<price>
  depth,       \* Redis hashes bids:depth and asks:depth
  engine,      \* the worker: where it stands in processOrderJob and its locals
  procs,       \* in-flight submitOrder calls
  canc,        \* in-flight cancelOrder call
  subs,        \* finished submitOrder calls, with their outcome
  arrivals,    \* order ids in the order addOrderToBook appended them
  nCancels,    \* cancelOrder calls made so far
  cancs,       \* finished step-wise cancelOrder calls, with their outcome
  events,      \* messages handed to broadcast.service, oldest first
  replay,      \* the job stream given for replay and the ledger its first run left
  failed       \* BullMQ's failed set: jobs whose processor threw, oldest first

vars == <<idem, epoch, orders, trades, queue, hashOrders, prices, lists, depth,
          engine, procs, canc, subs, arrivals, nCancels, cancs, events, replay, failed>>

intakeVars == <<idem, epoch, procs, canc, subs, nCancels, cancs>>
bookVars == <<hashOrders, prices, lists, depth, arrivals>>

NoSaved == [order_id |-> 0, side |-> "", type |-> "", price |-> PgStr(0),
            quantity |-> PgStr(0), filled_quantity |-> PgStr(0), status |-> ""]
IdleProc == [pc |-> "idle", payload |-> NoPayload, epoch |-> 0, order_id |-> 0,
             gateOk |-> TRUE,
             savedOrder |-> NoSaved]
NoRow == [client_id |-> "", side |-> "", type |-> "", price |-> 0, quantity |-> 0,
          filled_quantity |-> 0, status |-> ""]
IdleCanc == [pc |-> "idle", order_id |-> 0, order |-> NoRow]

NoOrder == [order_id |-> 0, side |-> "", type |-> "", price |-> 0,
            quantity |-> 0, filled_quantity |-> 0]
NoData == [quantity |-> 0, total_filled_quantity |-> 0]
NoJob == [name |-> "", order_id |-> 0]

NoReplay == [stream |-> <<>>, first |-> <<>>]

IdleEngine ==
  [pc |-> "idle", job |-> NoJob, taker |-> NoOrder, bestPrice |-> JsStr(0),
   makerOrderId |-> 0, makerData |-> NoData, tradeQty |-> 0]

Init ==
  /\ idem = {}
  /\ epoch = [k \in IdemKeys |-> 0]
  /\ orders = <<>>
  /\ trades = <<>>
  /\ queue = <<>>
  /\ hashOrders = <<>>
  /\ prices = [b \in BookSides |-> {}]
  /\ lists = [b \in BookSides |-> [s \in PriceStrs |-> <<>>]]
  /\ depth = [b \in BookSides |-> [s \in PriceStrs |-> 0]]
  /\ engine = IdleEngine
  /\ procs = [p \in Procs |-> IdleProc]
  /\ canc = IdleCanc
  /\ subs = <<>>
  /\ arrivals = <<>>
  /\ nCancels = 0
  /\ cancs = <<>>
  /\ events = <<>>
  /\ replay = NoReplay
  /\ failed = <<>>

\* ============================================================== Ledger
\* saveNewOrder: INSERT ... VALUES (..., 'open') RETURNING *
NewOrderRow(orderData) ==
  [client_id |-> orderData.client_id, side |-> orderData.side, type |-> orderData.type,
   price |-> orderData.price, quantity |-> orderData.quantity,
   filled_quantity |-> 0, status |-> "open"]

\* the row as node-postgres returns it and BullMQ carries it: NUMERIC as text
SavedOrder(orderId, row) ==
  [order_id |-> orderId, side |-> row.side, type |-> row.type,
   price |-> PgStr(row.price),
   quantity |-> PgStr(row.quantity),
   filled_quantity |-> PgStr(row.filled_quantity),
   status |-> row.status]

\* the job built from the request body, which has no order_id, instead of the saved row
ProcessOrderJob_body(savedOrder) ==
  [name |-> "process-order", order_id |-> 0, data |-> [savedOrder EXCEPT !.order_id = 0]]

\* orderQueue.add('process-order', savedOrder)
ProcessOrderJob(savedOrder) ==
  [name |-> "process-order", order_id |-> savedOrder.order_id, data |-> savedOrder]

\* updateOrderStatus: UPDATE orders SET status, filled_quantity WHERE order_id
updateOrderStatus(tbl, orderId, newStatus, newFilledQuantity) ==
  [tbl EXCEPT ![orderId].status = newStatus,
              ![orderId].filled_quantity = newFilledQuantity]

\* the two order ids written to each other's column
TradeRow_swapped(buyId, sellId, price, quantity, takerId) ==
  [buy_order_id |-> sellId, sell_order_id |-> buyId, price |-> price,
   quantity |-> quantity, taker_order_id |-> takerId]

\* createTrade: INSERT INTO trades.  taker_order_id is not a column: it records
\* which of the two orders was the incoming one.
TradeRow(buyId, sellId, price, quantity, takerId) ==
  [buy_order_id |-> buyId, sell_order_id |-> sellId, price |-> price,
   quantity |-> quantity, taker_order_id |-> takerId]

\* ============================================================== Intake
Started == Len(subs) + Cardinality({p \in Procs : procs[p].pc # "idle"})

Finish(p, claimed, result, orderId) ==
  /\ subs' = Append(subs, [key |-> procs[p].payload.idempotency_key,
                           epoch |-> procs[p].epoch, claimed |-> claimed,
                           result |-> result, order_id |-> orderId])
  /\ procs' = [procs EXCEPT ![p] = IdleProc]

\* submitOrder, the checks of step 2
Validate(d) ==
  /\ d.client_id # ""
  /\ d.instrument # ""
  /\ d.side \in Sides
  /\ d.type \in Types
  /\ d.quantity > 0
  /\ (d.type = "limit" => d.price > 0)

\* a SET without NX always answers OK
checkIdempotency_noNX(key) == TRUE

\* checkIdempotency: SET idempotency:<key> processing EX 86400 NX answers OK
\* exactly when the key did not exist
checkIdempotency(key) == key \notin idem

\* submitOrder with the validation moved in front of the claim
SubmitClaim_validateFirst(p, orderData) ==
  /\ procs[p].pc = "idle"
  /\ Started < MaxSubs
  /\ LET key == orderData.idempotency_key IN
     IF key = 0 \/ ~Validate(orderData) THEN
       /\ subs' = Append(subs, [key |-> key, epoch |-> IF key = 0 THEN 0 ELSE epoch[key],
                                claimed |-> FALSE,
                                result |-> "validation", order_id |-> 0])
       /\ UNCHANGED <<idem, procs>>
     ELSE IF ~checkIdempotency(key) THEN
       /\ subs' = Append(subs, [key |-> key, epoch |-> epoch[key], claimed |-> FALSE,
                                result |-> "duplicate", order_id |-> 0])
       /\ UNCHANGED <<idem, procs>>
     ELSE
       /\ idem' = idem \cup {key}
       /\ procs' = [procs EXCEPT ![p] = [IdleProc EXCEPT !.pc = "validate",
                                                         !.payload = orderData,
                                                         !.epoch = epoch[key]]]
       /\ UNCHANGED subs
  /\ UNCHANGED <<epoch, orders, trades, queue, engine, canc, nCancels, cancs>>
  /\ UNCHANGED bookVars
  /\ UNCHANGED <<events, replay, failed>>

\* submitOrder up to the return of checkIdempotency
SubmitClaim(p, orderData) ==
  /\ procs[p].pc = "idle"
  /\ Started < MaxSubs
  /\ LET key == orderData.idempotency_key IN
     IF key = 0 THEN
       /\ subs' = Append(subs, [key |-> key, epoch |-> 0, claimed |-> FALSE,
                                result |-> "validation", order_id |-> 0])
       /\ UNCHANGED <<idem, procs>>
     ELSE IF ~checkIdempotency(key) THEN
       /\ subs' = Append(subs, [key |-> key, epoch |-> epoch[key], claimed |-> FALSE,
                                result |-> "duplicate", order_id |-> 0])
       /\ UNCHANGED <<idem, procs>>
     ELSE
       /\ idem' = idem \cup {key}
       /\ procs' = [procs EXCEPT ![p] = [IdleProc EXCEPT !.pc = "validate",
                                                         !.payload = orderData,
                                                         !.epoch = epoch[key]]]
       /\ UNCHANGED subs
  /\ UNCHANGED <<epoch, orders, trades, queue, engine, canc, nCancels, cancs>>
  /\ UNCHANGED bookVars
  /\ UNCHANGED <<events, replay, failed>>

\* checkIdempotency answering true from its catch block instead of throwing
SubmitGateDown_failOpen(p, orderData) ==
  /\ procs[p].pc = "idle"
  /\ Started < MaxSubs
  /\ orderData.idempotency_key # 0
  /\ procs' = [procs EXCEPT ![p] = [IdleProc EXCEPT !.pc = "validate",
                                                    !.payload = orderData,
                                                    !.epoch = epoch[orderData.idempotency_key],
                                                    !.gateOk = FALSE]]
  /\ UNCHANGED <<idem, epoch, orders, trades, queue, engine, canc, subs, nCancels, cancs>>
  /\ UNCHANGED bookVars
  /\ UNCHANGED <<events, replay, failed>>

\* submitOrder for a payload with a key while Redis is unreachable: redis.set
\* rejects, checkIdempotency throws from its catch block and submitOrder
\* rethrows before the validation
SubmitGateDown(p, orderData) ==
  /\ procs[p].pc = "idle"
  /\ Started < MaxSubs
  /\ orderData.idempotency_key # 0
  /\ subs' = Append(subs, [key |-> orderData.idempotency_key,
                           epoch |-> epoch[orderData.idempotency_key],
                           claimed |-> FALSE, result |-> "gate", order_id |-> 0])
  /\ UNCHANGED <<idem, epoch, orders, trades, queue, engine, procs, canc, nCancels, cancs>>
  /\ UNCHANGED bookVars
  /\ UNCHANGED <<events, replay, failed>>

\* submitOrder from the validation to the return of saveNewOrder
\* submitOrder deleting the idempotency key when the INSERT fails
SubmitSave_release(p, dbOk) ==
  /\ procs[p].pc = "validate"
  /\ IF ~Validate(procs[p].payload) THEN
       /\ Finish(p, TRUE, "validation", 0)
       /\ UNCHANGED <<orders, idem>>
     ELSE IF dbOk THEN
       /\ orders' = Append(orders, NewOrderRow(procs[p].payload))
       /\ procs' = [procs EXCEPT ![p].pc = "enqueue", ![p].order_id = Len(orders) + 1,
                                 ![p].savedOrder = SavedOrder(Len(orders) + 1,
                                                     NewOrderRow(procs[p].payload))]
       /\ UNCHANGED <<subs, idem>>
     ELSE
       /\ Finish(p, TRUE, "storage", 0)
       /\ idem' = idem \ {procs[p].payload.idempotency_key}
       /\ UNCHANGED orders
  /\ UNCHANGED <<epoch, trades, queue, engine, canc, nCancels, cancs>>
  /\ UNCHANGED bookVars
  /\ UNCHANGED <<events, replay, failed>>

\* dbOk: whether the INSERT succeeds
SubmitSave(p, dbOk) ==
  /\ procs[p].pc = "validate"
  /\ IF ~Validate(procs[p].payload) THEN
       /\ Finish(p, TRUE, "validation", 0)
       /\ UNCHANGED orders
     ELSE IF dbOk THEN
       /\ orders' = Append(orders, NewOrderRow(procs[p].payload))
       /\ procs' = [procs EXCEPT ![p].pc = "enqueue", ![p].order_id = Len(orders) + 1,
                                 ![p].savedOrder = SavedOrder(Len(orders) + 1,
                                                     NewOrderRow(procs[p].payload))]
       /\ UNCHANGED subs
     ELSE
       /\ Finish(p, TRUE, "storage", 0)
       /\ UNCHANGED orders
  /\ UNCHANGED <<idem, epoch, trades, queue, engine, canc, nCancels, cancs>>
  /\ UNCHANGED bookVars
  /\ UNCHANGED <<events, replay, failed>>

\* submitOrder, orderQueue.add and the return
\* queueOk: whether orderQueue.add succeeds
SubmitEnqueue(p, queueOk) ==
  /\ procs[p].pc = "enqueue"
  /\ IF queueOk THEN
       /\ queue' = Append(queue, ProcessOrderJob(procs[p].savedOrder))
       /\ Finish(p, TRUE, "accepted", procs[p].order_id)
     ELSE
       /\ Finish(p, TRUE, "queue", procs[p].order_id)
       /\ UNCHANGED queue
  /\ UNCHANGED <<idem, epoch, orders, trades, engine, canc, nCancels, cancs>>
  /\ UNCHANGED bookVars
  /\ UNCHANGED <<events, replay, failed>>

\* the TTL of an idempotency key runs out
Expire(k) ==
  /\ k \in idem
  /\ epoch[k] < MaxExpire
  /\ idem' = idem \ {k}
  /\ epoch' = [epoch EXCEPT ![k] = @ + 1]
  /\ UNCHANGED <<orders, trades, queue, engine, procs, canc, subs, nCancels, cancs>>
  /\ UNCHANGED bookVars
  /\ UNCHANGED <<events, replay, failed>>


AcceptedIds == {subs[i].order_id : i \in {j \in 1..Len(subs) : subs[j].result = "accepted"}}

ProcessCancellationJob(orderId) ==
  [name |-> "process-cancellation", order_id |-> orderId, data |-> [order_id |-> orderId]]

\* order ids a client can send besides those it was given: a UUID the ledger
\* never generated, and a string that is not a UUID
UnknownId == 0
MalformedId == 0 - 1

\* getOrderById: the SELECT fails when Postgres is down and when $1 does not
\* parse as the UUID column order_id; the catch rethrows
getOrderByIdThrows(orderId, dbOk) == ~dbOk \/ orderId = MalformedId

\* getOrderById: rows[0], undefined when no row has the id
getOrderById(orderId) == IF orderId \in 1..Len(orders) THEN orders[orderId] ELSE NoRow

CancelDone(orderId, found, order, result, enqueued) ==
  cancs' = Append(cancs, [order_id |-> orderId, found |-> found, order |-> order,
                          result |-> result, enqueued |-> enqueued])

\* cancelOrder up to the checks on the row getOrderById returned
\* dbOk: whether Postgres answers the SELECT
CancelFetch(orderId, dbOk) ==
  /\ canc.pc = "idle"
  /\ Len(cancs) < MaxCancels + 1
  /\ orderId \in AcceptedIds \cup {UnknownId, MalformedId}
  /\ LET found == orderId \in 1..Len(orders)
         order == getOrderById(orderId) IN
     IF getOrderByIdThrows(orderId, dbOk) THEN
       /\ CancelDone(orderId, found, order, "error", 0)
       /\ UNCHANGED canc
     ELSE IF ~found THEN
       /\ CancelDone(orderId, found, order, "not_found", 0)
       /\ UNCHANGED canc
     ELSE IF order.status \in Terminal THEN
       /\ CancelDone(orderId, found, order, "conflict", 0)
       /\ UNCHANGED canc
     ELSE
       /\ canc' = [pc |-> "enqueue", order_id |-> orderId, order |-> order]
       /\ UNCHANGED cancs
  /\ UNCHANGED <<idem, epoch, orders, trades, queue, engine, procs, subs, nCancels>>
  /\ UNCHANGED bookVars
  /\ UNCHANGED <<events, replay, failed>>

\* cancelOrder, orderQueue.add and the return
\* queueOk: whether orderQueue.add succeeds
CancelEnqueue(queueOk) ==
  /\ canc.pc = "enqueue"
  /\ Len(queue) < MaxQueue
  /\ IF queueOk THEN
       /\ queue' = Append(queue, ProcessCancellationJob(canc.order_id))
       /\ CancelDone(canc.order_id, TRUE, canc.order, "accepted", 1)
     ELSE
       /\ CancelDone(canc.order_id, TRUE, canc.order, "error", 0)
       /\ UNCHANGED queue
  /\ canc' = IdleCanc
  /\ UNCHANGED <<idem, epoch, orders, trades, engine, procs, subs, nCancels>>
  /\ UNCHANGED bookVars
  /\ UNCHANGED <<events, replay, failed>>

\* ============================================================== Engine
BookSide(side) == IF side = "buy" THEN "bids" ELSE "asks"
OpposingSide(side) == IF side = "buy" THEN "asks" ELSE "bids"

\* the two range commands swapped: highest ask, lowest bid
IsBest_swapped(bookSide, m) ==
  /\ m \in prices[bookSide]
  /\ \A n \in prices[bookSide] :
       IF bookSide = "asks" THEN Num(m) >= Num(n) ELSE Num(m) <= Num(n)

\* zrange, the lowest score, for both sides
IsBest_lowest(bookSide, m) ==
  /\ m \in prices[bookSide]
  /\ \A n \in prices[bookSide] : Num(m) <= Num(n)

\* any member of the price set instead of its first
IsBest_any(bookSide, m) == m \in prices[bookSide]

\* zrange asks:prices 0 0 (lowest score) / zrevrange bids:prices 0 0 (highest)
IsBest(bookSide, m) ==
  /\ m \in prices[bookSide]
  /\ \A n \in prices[bookSide] :
       IF bookSide = "asks" THEN Num(m) <= Num(n) ELSE Num(m) >= Num(n)

\* the limit check left out
CanMatch_always(takerOrder, bestPriceNum) == TRUE

\* the limit check with strict comparisons
CanMatch_strict(takerOrder, bestPriceNum) ==
  IF takerOrder.side = "buy" THEN takerOrder.price > bestPriceNum
  ELSE takerOrder.price < bestPriceNum

\* the canMatch test of a limit taker
CanMatch(takerOrder, bestPriceNum) ==
  IF takerOrder.side = "buy" THEN takerOrder.price >= bestPriceNum
  ELSE takerOrder.price <= bestPriceNum

Remaining(o) == o.quantity - o.filled_quantity

\* the worker takes the oldest waiting job; processOrderJob builds its order
\* a worker handed the newest waiting job
NextJob_newest(q) == Len(q)

\* the position in the waiting list of the job BullMQ hands the worker: jobs
\* are added without priority or delay, so the oldest
NextJob(q) == 1

\* the worker, concurrency 1: it fetches a job only when it runs none
EngineTake ==
  /\ engine.pc = "idle"
  /\ queue # <<>>
  /\ queue' = [i \in 1..(Len(queue) - 1) |->
                IF i < NextJob(queue) THEN queue[i] ELSE queue[i + 1]]
  /\ LET job == queue[NextJob(queue)] IN
     IF job.name = "process-order" THEN
       engine' = [IdleEngine EXCEPT
                    !.pc = "loop",
                    !.job = [name |-> job.name, order_id |-> job.order_id],
                    !.taker = [order_id |-> job.data.order_id,
                               side |-> job.data.side,
                               type |-> job.data.type,
                               price |-> Num(job.data.price),
                               quantity |-> Num(job.data.quantity),
                               filled_quantity |-> Num(job.data.filled_quantity)]]
     ELSE
       engine' = [IdleEngine EXCEPT
                    !.pc = "cancel",
                    !.job = [name |-> job.name, order_id |-> job.data.order_id]]
  /\ UNCHANGED <<orders, trades>>
  /\ UNCHANGED intakeVars
  /\ UNCHANGED bookVars
  /\ UNCHANGED <<events, replay, failed>>

\* the orphan price level left in the sorted set
ZRemOrphanLevel_keep(members, bestPrice) == members

\* every price dropped from the sorted set with the orphan one
ZRemOrphanLevel_all(members, bestPrice) == {}

\* redis.zrem(pricesKey, bestPrice) after LPOP found the list empty
ZRemOrphanLevel(members, bestPrice) == members \ {bestPrice}

\* processMatchingLoop from the while test to the trade quantity: the best
\* price, the limit check, LPOP of the maker id and HGET of its data
MatchFind ==
  /\ engine.pc = "loop"
  /\ LET taker == engine.taker
         opp == OpposingSide(taker.side)
     IN
     IF Remaining(taker) <= EPSILON \/ prices[opp] = {} THEN
       /\ engine' = [engine EXCEPT !.pc = "post"]
       /\ UNCHANGED <<prices, lists>>
     ELSE
       \E bestPrice \in prices[opp] :
         /\ IsBest(opp, bestPrice)
         /\ LET tradePrice == Num(bestPrice)
                priceListKey == JsStr(tradePrice)
                list == lists[opp][priceListKey]
            IN
            IF taker.type = "limit" /\ ~CanMatch(taker, tradePrice) THEN
              /\ engine' = [engine EXCEPT !.pc = "post"]
              /\ UNCHANGED <<prices, lists>>
            ELSE IF list = <<>> THEN
              \* orphan price level: ZREM and continue
              /\ prices' = [prices EXCEPT ![opp] = ZRemOrphanLevel(@, bestPrice)]
              /\ UNCHANGED <<engine, lists>>
            ELSE
              /\ lists' = [lists EXCEPT ![opp][priceListKey] = Tail(list)]
              /\ UNCHANGED prices
              /\ LET makerOrderId == Head(list) IN
                 IF makerOrderId \notin DOMAIN hashOrders THEN
                   \* orphan order id: continue
                   UNCHANGED engine
                 ELSE
                   LET makerData == hashOrders[makerOrderId]
                       tradeQty == Min(Remaining(taker), makerData.quantity)
                   IN
                   IF tradeQty <= EPSILON THEN UNCHANGED engine
                   ELSE engine' = [engine EXCEPT !.pc = "trade",
                                                 !.bestPrice = bestPrice,
                                                 !.makerOrderId = makerOrderId,
                                                 !.makerData = makerData,
                                                 !.tradeQty = tradeQty]
  /\ UNCHANGED <<orders, trades, queue, hashOrders, depth, arrivals>>
  /\ UNCHANGED intakeVars
  /\ UNCHANGED <<events, replay, failed>>

\* the trade written at the taker's price
MatchCreateTrade_takerPrice ==
  /\ engine.pc = "trade"
  /\ LET taker == engine.taker IN
     trades' = Append(trades,
        TradeRow(IF taker.side = "buy" THEN taker.order_id ELSE engine.makerOrderId,
                 IF taker.side = "sell" THEN taker.order_id ELSE engine.makerOrderId,
                 taker.price, engine.tradeQty, taker.order_id))
  /\ engine' = [engine EXCEPT !.pc = "depth"]
  /\ UNCHANGED <<orders, queue>>
  /\ UNCHANGED intakeVars
  /\ UNCHANGED bookVars
  /\ UNCHANGED <<events, replay, failed>>

\* persistence.createTrade(tradeData)
MatchCreateTrade ==
  /\ engine.pc = "trade"
  /\ LET taker == engine.taker IN
     trades' = Append(trades,
        TradeRow(IF taker.side = "buy" THEN taker.order_id ELSE engine.makerOrderId,
                 IF taker.side = "sell" THEN taker.order_id ELSE engine.makerOrderId,
                 Num(engine.bestPrice), engine.tradeQty, taker.order_id))
  /\ engine' = [engine EXCEPT !.pc = "depth"]
  /\ UNCHANGED <<orders, queue>>
  /\ UNCHANGED intakeVars
  /\ UNCHANGED bookVars
  /\ UNCHANGED <<events, replay, failed>>

\* HINCRBYFLOAT <side>:depth <tradePrice> -tradeQty, then the taker in memory
MatchDepth ==
  /\ engine.pc = "depth"
  /\ LET opp == OpposingSide(engine.taker.side)
         field == JsStr(Num(engine.bestPrice))
     IN depth' = [depth EXCEPT ![opp][field] = @ - engine.tradeQty]
  /\ engine' = [engine EXCEPT !.pc = "maker",
                              !.taker.filled_quantity = @ + engine.tradeQty]
  /\ UNCHANGED <<orders, trades, queue, hashOrders, prices, lists, arrivals>>
  /\ UNCHANGED intakeVars
  /\ UNCHANGED <<events, replay, failed>>

\* the trade quantity not subtracted
MakerNewRemainingQty_stale == engine.makerData.quantity

MakerNewRemainingQty == engine.makerData.quantity - engine.tradeQty

\* the trade quantity not added
MakerNewFilledQty_stale == engine.makerData.total_filled_quantity

MakerNewFilledQty == engine.makerData.total_filled_quantity + engine.tradeQty

\* the maker in the orders hash: HDEL when filled, HSET of the new pair otherwise
MatchMakerHash ==
  /\ engine.pc = "maker"
  /\ IF MakerNewRemainingQty <= EPSILON THEN
       /\ hashOrders' = Del(hashOrders, engine.makerOrderId)
       /\ engine' = [engine EXCEPT !.pc = "makerPg"]
     ELSE
       /\ hashOrders' = Put(hashOrders, engine.makerOrderId,
                            [quantity |-> MakerNewRemainingQty,
                             total_filled_quantity |-> MakerNewFilledQty])
       /\ engine' = [engine EXCEPT !.pc = "makerPush"]
  /\ UNCHANGED <<orders, trades, queue, prices, lists, depth, arrivals>>
  /\ UNCHANGED intakeVars
  /\ UNCHANGED <<events, replay, failed>>

\* the partially filled maker appended to the end of its list
MatchMakerPush_tail ==
  /\ engine.pc = "makerPush"
  /\ LET opp == OpposingSide(engine.taker.side)
         priceListKey == JsStr(Num(engine.bestPrice))
     IN lists' = [lists EXCEPT ![opp][priceListKey] = Append(@, engine.makerOrderId)]
  /\ engine' = [engine EXCEPT !.pc = "makerPg"]
  /\ UNCHANGED <<orders, trades, queue, hashOrders, prices, depth, arrivals>>
  /\ UNCHANGED intakeVars
  /\ UNCHANGED <<events, replay, failed>>

\* LPUSH of the partially filled maker to the front of its list
MatchMakerPush ==
  /\ engine.pc = "makerPush"
  /\ LET opp == OpposingSide(engine.taker.side)
         priceListKey == JsStr(Num(engine.bestPrice))
     IN lists' = [lists EXCEPT ![opp][priceListKey] = <<engine.makerOrderId>> \o @]
  /\ engine' = [engine EXCEPT !.pc = "makerPg"]
  /\ UNCHANGED <<orders, trades, queue, hashOrders, prices, depth, arrivals>>
  /\ UNCHANGED intakeVars
  /\ UNCHANGED <<events, replay, failed>>

\* updateOrderStatus of the maker
MatchMakerLedger ==
  /\ engine.pc = "makerPg"
  /\ orders' = updateOrderStatus(orders, engine.makerOrderId,
                  IF MakerNewRemainingQty <= EPSILON THEN "filled" ELSE "partially_filled",
                  MakerNewFilledQty)
  /\ engine' = [engine EXCEPT !.pc = "takerPg"]
  /\ UNCHANGED <<trades, queue>>
  /\ UNCHANGED intakeVars
  /\ UNCHANGED bookVars
  /\ UNCHANGED <<events, replay, failed>>

\* the in-loop update addressed to the maker instead of the taker
MatchTakerLedger_maker ==
  /\ engine.pc = "takerPg"
  /\ orders' = updateOrderStatus(orders, engine.makerOrderId, "partially_filled",
                                 engine.taker.filled_quantity)
  /\ engine' = [engine EXCEPT !.pc = "cleanup"]
  /\ UNCHANGED <<trades, queue>>
  /\ UNCHANGED intakeVars
  /\ UNCHANGED bookVars
  /\ UNCHANGED <<events, replay, failed>>

\* updateOrderStatus(taker, 'partially_filled', filled_quantity) inside the loop
MatchTakerLedger ==
  /\ engine.pc = "takerPg"
  /\ orders' = updateOrderStatus(orders, engine.taker.order_id, "partially_filled",
                                 engine.taker.filled_quantity)
  /\ engine' = [engine EXCEPT !.pc = "cleanup"]
  /\ UNCHANGED <<trades, queue>>
  /\ UNCHANGED intakeVars
  /\ UNCHANGED bookVars
  /\ UNCHANGED <<events, replay, failed>>

\* the level left in the sorted set when its list has become empty
MatchCleanup_noZrem ==
  /\ engine.pc = "cleanup"
  /\ UNCHANGED prices
  /\ engine' = [engine EXCEPT !.pc = "loop", !.bestPrice = JsStr(0),
                              !.makerOrderId = 0, !.makerData = NoData, !.tradeQty = 0]
  /\ UNCHANGED <<orders, trades, queue, hashOrders, lists, depth, arrivals>>
  /\ UNCHANGED intakeVars
  /\ UNCHANGED <<events, replay, failed>>

\* LLEN of the level and ZREM of its price when it is empty; back to the while
MatchCleanup ==
  /\ engine.pc = "cleanup"
  /\ LET opp == OpposingSide(engine.taker.side)
         priceListKey == JsStr(Num(engine.bestPrice))
     IN prices' = IF Len(lists[opp][priceListKey]) = 0
                  THEN [prices EXCEPT ![opp] = @ \ {engine.bestPrice}]
                  ELSE prices
  /\ engine' = [engine EXCEPT !.pc = "loop", !.bestPrice = JsStr(0),
                              !.makerOrderId = 0, !.makerData = NoData, !.tradeQty = 0]
  /\ UNCHANGED <<orders, trades, queue, hashOrders, lists, depth, arrivals>>
  /\ UNCHANGED intakeVars
  /\ UNCHANGED <<events, replay, failed>>


\* addOrderToBook: MULTI { HSET orders, ZADD prices, RPUSH list, HINCRBYFLOAT depth }
\* with the keys built from the order's price as a JavaScript number
\* addOrderToBook with LPUSH in place of RPUSH
addOrderToBook_front(order, remainingQty) ==
  LET bookSide == BookSide(order.side)
      priceStr == JsStr(order.price)
  IN
  /\ hashOrders' = Put(hashOrders, order.order_id,
                       [quantity |-> remainingQty,
                        total_filled_quantity |-> order.filled_quantity])
  /\ prices' = [prices EXCEPT ![bookSide] = @ \cup {priceStr}]
  /\ lists' = [lists EXCEPT ![bookSide][priceStr] = <<order.order_id>> \o @]
  /\ depth' = [depth EXCEPT ![bookSide][priceStr] = @ + remainingQty]
  /\ arrivals' = Append(arrivals, order.order_id)

addOrderToBook(order, remainingQty) ==
  LET bookSide == BookSide(order.side)
      priceStr == JsStr(order.price)
  IN
  /\ hashOrders' = Put(hashOrders, order.order_id,
                       [quantity |-> remainingQty,
                        total_filled_quantity |-> order.filled_quantity])
  /\ prices' = [prices EXCEPT ![bookSide] = @ \cup {priceStr}]
  /\ lists' = [lists EXCEPT ![bookSide][priceStr] = Append(@, order.order_id)]
  /\ depth' = [depth EXCEPT ![bookSide][priceStr] = @ + remainingQty]
  /\ arrivals' = Append(arrivals, order.order_id)

\* matchMarketOrder marking every market order filled
MarketFinalStatus_filled(remainingQty) == "filled"

\* matchMarketOrder: finalStatus
MarketFinalStatus(remainingQty) ==
  IF remainingQty > EPSILON THEN "partially_filled" ELSE "filled"

\* matchLimitOrder leaving out addOrderToBook
MatchPost_noRest ==
  /\ engine.pc = "post"
  /\ LET taker == engine.taker
         remainingQty == Remaining(taker)
     IN
     IF taker.type = "market" THEN
       /\ orders' = updateOrderStatus(orders, taker.order_id,
                                      MarketFinalStatus(remainingQty),
                                      taker.filled_quantity)
       /\ engine' = IdleEngine
       /\ UNCHANGED bookVars
     ELSE IF remainingQty > EPSILON THEN
       /\ engine' = [engine EXCEPT !.pc = "restPg"]
       /\ UNCHANGED orders
       /\ UNCHANGED bookVars
     ELSE
       /\ orders' = updateOrderStatus(orders, taker.order_id, "filled",
                                      taker.filled_quantity)
       /\ engine' = IdleEngine
       /\ UNCHANGED bookVars
  /\ UNCHANGED <<trades, queue>>
  /\ UNCHANGED intakeVars
  /\ UNCHANGED <<events, replay, failed>>

\* matchMarketOrder / matchLimitOrder after the loop returned
MatchPost ==
  /\ engine.pc = "post"
  /\ LET taker == engine.taker
         remainingQty == Remaining(taker)
     IN
     IF taker.type = "market" THEN
       /\ orders' = updateOrderStatus(orders, taker.order_id,
                                      MarketFinalStatus(remainingQty),
                                      taker.filled_quantity)
       /\ engine' = IdleEngine
       /\ UNCHANGED bookVars
     ELSE IF remainingQty > EPSILON THEN
       /\ addOrderToBook(taker, remainingQty)
       /\ engine' = [engine EXCEPT !.pc = "restPg"]
       /\ UNCHANGED orders
     ELSE
       /\ orders' = updateOrderStatus(orders, taker.order_id, "filled",
                                      taker.filled_quantity)
       /\ engine' = IdleEngine
       /\ UNCHANGED bookVars
  /\ UNCHANGED <<trades, queue>>
  /\ UNCHANGED intakeVars
  /\ UNCHANGED <<events, replay, failed>>

\* matchLimitOrder: the ledger status of the order that now rests
MatchRestLedger ==
  /\ engine.pc = "restPg"
  /\ orders' = updateOrderStatus(orders, engine.taker.order_id,
                  IF engine.taker.filled_quantity > 0 THEN "partially_filled" ELSE "open",
                  engine.taker.filled_quantity)
  /\ engine' = IdleEngine
  /\ UNCHANGED <<trades, queue>>
  /\ UNCHANGED intakeVars
  /\ UNCHANGED bookVars
  /\ UNCHANGED <<events, replay, failed>>

\* is the order still in the live book (HGET orders <id>)
InLiveBook(orderId) == orderId \in DOMAIN hashOrders

\* handleCancelJob going on to the ledger update when the HGET finds nothing
CancelRemove_noReturn ==
  /\ engine.pc = "cancel"
  /\ LET orderId == engine.job.order_id IN
     IF ~InLiveBook(orderId) THEN
       /\ engine' = [engine EXCEPT !.pc = "cancelPg"]
       /\ UNCHANGED <<hashOrders, lists, depth>>
     ELSE
       LET orderData == hashOrders[orderId]
           bookSide == BookSide(orders[orderId].side)
           price == PgStr(orders[orderId].price)
       IN
       /\ lists' = [lists EXCEPT ![bookSide][price] = LRem(@, orderId)]
       /\ hashOrders' = Del(hashOrders, orderId)
       /\ depth' = [depth EXCEPT ![bookSide][price] = @ - orderData.quantity]
       /\ engine' = [engine EXCEPT !.pc = "cancelClean", !.bestPrice = price,
                                   !.makerData = orderData]
  /\ UNCHANGED <<orders, trades, queue, prices, arrivals>>
  /\ UNCHANGED intakeVars
  /\ UNCHANGED <<events, replay, failed>>

\* handleCancelJob leaving the order in the orders hash
CancelRemove_noHdel ==
  /\ engine.pc = "cancel"
  /\ LET orderId == engine.job.order_id IN
     IF ~InLiveBook(orderId) THEN
       /\ engine' = IdleEngine
       /\ UNCHANGED <<hashOrders, lists, depth>>
     ELSE
       LET orderData == hashOrders[orderId]
           bookSide == BookSide(orders[orderId].side)
           price == PgStr(orders[orderId].price)
       IN
       /\ lists' = [lists EXCEPT ![bookSide][price] = LRem(@, orderId)]
       /\ UNCHANGED hashOrders
       /\ depth' = [depth EXCEPT ![bookSide][price] = @ - orderData.quantity]
       /\ engine' = [engine EXCEPT !.pc = "cancelClean", !.bestPrice = price,
                                   !.makerData = orderData]
  /\ UNCHANGED <<orders, trades, queue, prices, arrivals>>
  /\ UNCHANGED intakeVars
  /\ UNCHANGED <<events, replay, failed>>

\* handleCancelJob up to the MULTI { LREM, HDEL, HINCRBYFLOAT }; side and price
\* come from the Postgres row, the price as the NUMERIC text
CancelRemove ==
  /\ engine.pc = "cancel"
  /\ LET orderId == engine.job.order_id IN
     IF ~InLiveBook(orderId) THEN
       /\ engine' = IdleEngine
       /\ UNCHANGED <<hashOrders, lists, depth>>
     ELSE
       LET orderData == hashOrders[orderId]
           bookSide == BookSide(orders[orderId].side)
           price == PgStr(orders[orderId].price)
       IN
       /\ lists' = [lists EXCEPT ![bookSide][price] = LRem(@, orderId)]
       /\ hashOrders' = Del(hashOrders, orderId)
       /\ depth' = [depth EXCEPT ![bookSide][price] = @ - orderData.quantity]
       /\ engine' = [engine EXCEPT !.pc = "cancelClean", !.bestPrice = price,
                                   !.makerData = orderData]
  /\ UNCHANGED <<orders, trades, queue, prices, arrivals>>
  /\ UNCHANGED intakeVars
  /\ UNCHANGED <<events, replay, failed>>

\* handleCancelJob: LLEN of the list and ZREM of the price when it is empty
CancelCleanup ==
  /\ engine.pc = "cancelClean"
  /\ LET bookSide == BookSide(orders[engine.job.order_id].side)
         price == engine.bestPrice
     IN prices' = IF Len(lists[bookSide][price]) = 0
                  THEN [prices EXCEPT ![bookSide] = @ \ {price}]
                  ELSE prices
  /\ engine' = [engine EXCEPT !.pc = "cancelPg"]
  /\ UNCHANGED <<orders, trades, queue, hashOrders, lists, depth, arrivals>>
  /\ UNCHANGED intakeVars
  /\ UNCHANGED <<events, replay, failed>>

\* handleCancelJob writing the remaining quantity as the filled quantity
CancelLedger_remaining ==
  /\ engine.pc = "cancelPg"
  /\ orders' = updateOrderStatus(orders, engine.job.order_id, "cancelled",
                                 engine.makerData.quantity)
  /\ engine' = IdleEngine
  /\ UNCHANGED <<trades, queue>>
  /\ UNCHANGED intakeVars
  /\ UNCHANGED bookVars
  /\ UNCHANGED <<events, replay, failed>>

\* handleCancelJob: updateOrderStatus(orderId, 'cancelled', total_filled_quantity)
CancelLedger ==
  /\ engine.pc = "cancelPg"
  /\ orders' = updateOrderStatus(orders, engine.job.order_id, "cancelled",
                                 engine.makerData.total_filled_quantity)
  /\ engine' = IdleEngine
  /\ UNCHANGED <<trades, queue>>
  /\ UNCHANGED intakeVars
  /\ UNCHANGED bookVars
  /\ UNCHANGED <<events, replay, failed>>

\* ================================================================ system
\* submitOrder run from call to return with Redis, Postgres and the queue
\* answering: claim of the key, validation, INSERT, orderQueue.add
SubmitOrder(orderData) ==
  /\ Started < MaxSubs
  /\ Len(queue) < MaxQueue
  /\ \A p \in Procs : procs[p].pc = "idle"
  /\ orderData.idempotency_key # 0
  /\ checkIdempotency(orderData.idempotency_key)
  /\ Validate(orderData)
  /\ idem' = idem \cup {orderData.idempotency_key}
  /\ orders' = Append(orders, NewOrderRow(orderData))
  /\ queue' = Append(queue, ProcessOrderJob(SavedOrder(Len(orders) + 1,
                                                       NewOrderRow(orderData))))
  /\ subs' = Append(subs, [key |-> orderData.idempotency_key,
                           epoch |-> epoch[orderData.idempotency_key],
                           claimed |-> TRUE, result |-> "accepted",
                           order_id |-> Len(orders) + 1])
  /\ UNCHANGED <<epoch, trades, engine, procs, canc, nCancels, cancs>>
  /\ UNCHANGED bookVars
  /\ UNCHANGED <<events, replay, failed>>

\* cancelOrder run from call to return for an order whose submission returned
\* and which is not in a final state: getOrderById, the checks, orderQueue.add
CancelOrder(orderId) ==
  /\ canc.pc = "idle"
  /\ nCancels < MaxCancels
  /\ Len(queue) < MaxQueue
  /\ orderId \in AcceptedIds
  /\ orders[orderId].status \notin Terminal
  /\ nCancels' = nCancels + 1
  /\ queue' = Append(queue, ProcessCancellationJob(orderId))
  /\ UNCHANGED <<idem, epoch, orders, trades, engine, procs, canc, subs, cancs>>
  /\ UNCHANGED bookVars
  /\ UNCHANGED <<events, replay, failed>>

\* The whole system with each Intake call run from call to return, fed by
\* clients that use a fresh idempotency key for every well-formed order.
FreshPayloads == {d \in ValidPayloads : d.idempotency_key = Started + 1}

Submit == \E orderData \in FreshPayloads : SubmitOrder(orderData)
Cancel == \E orderId \in 1..MaxSubs : CancelOrder(orderId)

Next ==
  \/ Submit
  \/ Cancel
  \/ EngineTake
  \/ MatchFind
  \/ MatchCreateTrade
  \/ MatchDepth
  \/ MatchMakerHash
  \/ MatchMakerPush
  \/ MatchMakerLedger
  \/ MatchTakerLedger
  \/ MatchCleanup
  \/ MatchPost
  \/ MatchRestLedger
  \/ CancelRemove
  \/ CancelCleanup
  \/ CancelLedger

Spec == Init /\ [][Next]_vars

\* Intake on its own: any payload, repeated keys, concurrent calls, key expiry,
\* Postgres and queue faults.  The jobs it enqueues wait in the queue.
IntakeKeys == {1, 2}
IntakePayloads ==
  {d \in ValidPayloads : d.idempotency_key \in IntakeKeys /\ d.quantity = 2 /\ d.price \in {0, 1}}
  \cup InvalidPayloads
  \cup {[BasePayload EXCEPT !.idempotency_key = 2, !.quantity = 0]}

SubmitAny == \E p \in Procs, orderData \in IntakePayloads : SubmitClaim(p, orderData)
SaveOrFail == \E p \in Procs, dbOk \in BOOLEAN : SubmitSave(p, dbOk)
EnqueueOrFail == \E p \in Procs, queueOk \in BOOLEAN : SubmitEnqueue(p, queueOk)
KeyExpiry == \E k \in IntakeKeys : Expire(k)

NextIntake ==
  \/ SubmitAny
  \/ SaveOrFail
  \/ EnqueueOrFail
  \/ KeyExpiry

SpecIntake == Init /\ [][NextIntake]_vars

\* Intake with a Redis that can be unreachable when a submission arrives
GateOutage == \E p \in Procs, orderData \in IntakePayloads : SubmitGateDown(p, orderData)

NextGate ==
  \/ SubmitAny
  \/ SaveOrFail
  \/ EnqueueOrFail
  \/ KeyExpiry
  \/ GateOutage

SpecGate == Init /\ [][NextGate]_vars

\* The whole system with cancelOrder run step by step for any order id, with
\* Postgres and queue faults, fed with limit orders at a single price and small
\* market orders.
CancelPayloads ==
  {d \in FreshPayloads : \/ d.type = "limit" /\ d.price = 1 /\ d.quantity \in {2, 4}
                         \/ d.type = "market" /\ d.quantity = 2}

SubmitSmall == \E orderData \in CancelPayloads : SubmitOrder(orderData)
CancelCall ==
  \E orderId \in AcceptedIds \cup {UnknownId, MalformedId}, dbOk \in BOOLEAN :
    CancelFetch(orderId, dbOk)
CancelSend == \E queueOk \in BOOLEAN : CancelEnqueue(queueOk)

NextCancel ==
  \/ SubmitSmall
  \/ CancelCall
  \/ CancelSend
  \/ EngineTake
  \/ MatchFind
  \/ MatchCreateTrade
  \/ MatchDepth
  \/ MatchMakerHash
  \/ MatchMakerPush
  \/ MatchMakerLedger
  \/ MatchTakerLedger
  \/ MatchCleanup
  \/ MatchPost
  \/ MatchRestLedger
  \/ CancelRemove
  \/ CancelCleanup
  \/ CancelLedger

SpecCancel == Init /\ [][NextCancel]_vars


\* The engine alone, given a complete job stream twice: the ledger holds the
\* stream's orders as saveNewOrder inserted them, the book is empty, and the
\* queue holds the stream; when the queue has drained the ledger is kept aside,
\* ledger and book are set back and the stream is queued again.
ReplayPayloads ==
  {d \in ValidPayloads : /\ d.idempotency_key = 1
                         /\ \/ d.type = "limit" /\ d.quantity \in {2, 4}
                            \/ d.type = "market" /\ d.quantity = 2}

ReplayStream(rows, cancelled, after) ==
  LET jobs == [i \in 1..Len(rows) |-> ProcessOrderJob(SavedOrder(i, rows[i]))] IN
  IF cancelled = 0 THEN jobs
  ELSE SubSeq(jobs, 1, after) \o <<ProcessCancellationJob(cancelled)>>
         \o SubSeq(jobs, after + 1, Len(jobs))

InitReplay ==
  /\ \E n \in 1..MaxSubs :
       \E ds \in [1..n -> ReplayPayloads], cancelled \in 0..n :
         \E after \in cancelled..n :
           /\ cancelled = 0 => after = 0
           /\ orders = [i \in 1..n |-> NewOrderRow(ds[i])]
           /\ queue = ReplayStream(orders, cancelled, after)
           /\ replay = [stream |-> queue, first |-> <<>>]
  /\ idem = {}
  /\ epoch = [k \in IdemKeys |-> 0]
  /\ trades = <<>>
  /\ hashOrders = <<>>
  /\ prices = [b \in BookSides |-> {}]
  /\ lists = [b \in BookSides |-> [s \in PriceStrs |-> <<>>]]
  /\ depth = [b \in BookSides |-> [s \in PriceStrs |-> 0]]
  /\ engine = IdleEngine
  /\ procs = [p \in Procs |-> IdleProc]
  /\ canc = IdleCanc
  /\ subs = <<>>
  /\ arrivals = <<>>
  /\ nCancels = 0
  /\ cancs = <<>>
  /\ events = <<>>
  /\ failed = <<>>

ReplayRestart ==
  /\ engine.pc = "idle"
  /\ queue = <<>>
  /\ replay.first = <<>>
  /\ replay' = [replay EXCEPT !.first = <<[orders |-> orders, trades |-> trades]>>]
  /\ orders' = [i \in DOMAIN orders |->
                  [orders[i] EXCEPT !.filled_quantity = 0, !.status = "open"]]
  /\ trades' = <<>>
  /\ queue' = replay.stream
  /\ hashOrders' = <<>>
  /\ prices' = [b \in BookSides |-> {}]
  /\ lists' = [b \in BookSides |-> [s \in PriceStrs |-> <<>>]]
  /\ depth' = [b \in BookSides |-> [s \in PriceStrs |-> 0]]
  /\ arrivals' = <<>>
  /\ UNCHANGED <<engine, events, failed>>
  /\ UNCHANGED intakeVars

NextReplay ==
  \/ ReplayRestart
  \/ EngineTake
  \/ MatchFind
  \/ MatchCreateTrade
  \/ MatchDepth
  \/ MatchMakerHash
  \/ MatchMakerPush
  \/ MatchMakerLedger
  \/ MatchTakerLedger
  \/ MatchCleanup
  \/ MatchPost
  \/ MatchRestLedger
  \/ CancelRemove
  \/ CancelCleanup
  \/ CancelLedger

SpecReplay == InitReplay /\ [][NextReplay]_vars


\* The whole system with Postgres failing under the engine.  The engine's next
\* call is one to the ledger: createTrade, updateOrderStatus, or getOrderById
\* in handleCancelJob for an order still in the book.
LedgerCallNext ==
  \/ engine.pc \in {"trade", "makerPg", "takerPg", "restPg", "cancelPg"}
  \/ /\ engine.pc = "post"
     /\ engine.taker.type = "market" \/ Remaining(engine.taker) <= EPSILON
  \/ engine.pc = "cancel" /\ InLiveBook(engine.job.order_id)

\* the ledger call rejects: the error leaves processOrderJob through its catch,
\* the worker logs it and moves the job to the failed set (the queue and its
\* jobs are created without attempts)
LedgerFault ==
  /\ LedgerCallNext
  /\ Len(failed) < MaxFaults
  /\ engine' = IdleEngine
  /\ failed' = Append(failed, engine.job)
  /\ UNCHANGED <<orders, trades, queue, events, replay>>
  /\ UNCHANGED intakeVars
  /\ UNCHANGED bookVars

NextFault ==
  \/ SubmitSmall
  \/ Cancel
  \/ LedgerFault
  \/ EngineTake
  \/ MatchFind
  \/ MatchCreateTrade
  \/ MatchDepth
  \/ MatchMakerHash
  \/ MatchMakerPush
  \/ MatchMakerLedger
  \/ MatchTakerLedger
  \/ MatchCleanup
  \/ MatchPost
  \/ MatchRestLedger
  \/ CancelRemove
  \/ CancelCleanup
  \/ CancelLedger

SpecFault == Init /\ [][NextFault]_vars

\* The engine's steps as the worker schedules them: an await that does not
\* reject resumes the processor, so a step that can be taken is taken.
EngineStep ==
  \/ MatchFind
  \/ MatchCreateTrade
  \/ MatchDepth
  \/ MatchMakerHash
  \/ MatchMakerPush
  \/ MatchMakerLedger
  \/ MatchTakerLedger
  \/ MatchCleanup
  \/ MatchPost
  \/ MatchRestLedger
  \/ CancelRemove
  \/ CancelCleanup
  \/ CancelLedger

SpecLive == InitReplay /\ [][NextReplay]_vars /\ WF_vars(EngineStep)

\* The engine fed by concurrent submitOrder calls run step by step: each call
\* inserts its row (which fixes created_at) and adds its job in two separate
\* awaits, so two calls can interleave between them.  Limit orders at a single
\* price, fresh idempotency keys, no faults.
RacePayloads ==
  {d \in FreshPayloads : d.type = "limit" /\ d.price = 1 /\ d.quantity \in {2, 4}}

RaceSubmit == \E p \in Procs, orderData \in RacePayloads : SubmitClaim(p, orderData)
RaceSave == \E p \in Procs : SubmitSave(p, TRUE)
RaceEnqueue == \E p \in Procs : SubmitEnqueue(p, TRUE)

NextRace ==
  \/ RaceSubmit
  \/ RaceSave
  \/ RaceEnqueue
  \/ EngineTake
  \/ MatchFind
  \/ MatchCreateTrade
  \/ MatchDepth
  \/ MatchMakerHash
  \/ MatchMakerPush
  \/ MatchMakerLedger
  \/ MatchTakerLedger
  \/ MatchCleanup
  \/ MatchPost
  \/ MatchRestLedger

SpecRace == Init /\ [][NextRace]_vars

\* ------------------------------------------------------------ order book view
\* zrange / zrevrange key 0 count-1: the first count members by score
RECURSIVE ZRange(_, _, _)
ZRange(members, count, ascending) ==
  IF members = {} \/ count = 0 THEN <<>>
  ELSE LET first == CHOOSE m \in members : \A n \in members :
                      IF ascending THEN Num(m) <= Num(n) ELSE Num(m) >= Num(n)
       IN <<first>> \o ZRange(members \ {first}, count - 1, ascending)

\* getFormattedOrderBook, step 5: order id -> quantity for the ids HMGET found
OrderQtyMap(uniqueOrderIds) ==
  [id \in uniqueOrderIds \cap DOMAIN hashOrders |-> hashOrders[id].quantity]

\* formatSide: totalQuantity of one level, orderQtyMap.get(id) || 0 summed
RECURSIVE TotalQuantity(_, _)
TotalQuantity(orderIds, orderQtyMap) ==
  IF orderIds = <<>> THEN 0
  ELSE (IF Head(orderIds) \in DOMAIN orderQtyMap THEN orderQtyMap[Head(orderIds)] ELSE 0)
       + TotalQuantity(Tail(orderIds), orderQtyMap)

\* formatSide: the running sum up to level index
RECURSIVE Cumulative(_, _, _)
Cumulative(idLists, orderQtyMap, index) ==
  IF index = 0 THEN 0
  ELSE Cumulative(idLists, orderQtyMap, index - 1)
       + TotalQuantity(idLists[index], orderQtyMap)

\* formatSide without the filter of empty levels
formatSide_noFilter(priceList, idLists, orderQtyMap) ==
  [index \in 1..Len(priceList) |->
     [price |-> Num(priceList[index]),
      quantity |-> TotalQuantity(idLists[index], orderQtyMap),
      cumulative |-> Cumulative(idLists, orderQtyMap, index)]]

\* formatSide: map over the price list, then filter level.quantity > 0
formatSide(priceList, idLists, orderQtyMap) ==
  SelectSeq([index \in 1..Len(priceList) |->
               [price |-> Num(priceList[index]),
                quantity |-> TotalQuantity(idLists[index], orderQtyMap),
                cumulative |-> Cumulative(idLists, orderQtyMap, index)]],
            LAMBDA level : level.quantity > 0)

\* getFormattedOrderBook(levels), read from the book as it stands
getFormattedOrderBook(levels) ==
  LET askPriceList == ZRange(prices["asks"], levels, TRUE)
      bidPriceList == ZRange(prices["bids"], levels, FALSE)
      askIdLists == [i \in 1..Len(askPriceList) |-> lists["asks"][askPriceList[i]]]
      bidIdLists == [i \in 1..Len(bidPriceList) |-> lists["bids"][bidPriceList[i]]]
      uniqueOrderIds ==
        {askIdLists[i][n] : <<i, n>> \in
           {x \in (1..MaxLevels) \X (1..MaxSubs) :
              x[1] <= Len(askIdLists) /\ x[2] <= Len(askIdLists[x[1]])}}
        \cup
        {bidIdLists[i][n] : <<i, n>> \in
           {x \in (1..MaxLevels) \X (1..MaxSubs) :
              x[1] <= Len(bidIdLists) /\ x[2] <= Len(bidIdLists[x[1]])}}
      orderQtyMap == OrderQtyMap(uniqueOrderIds)
  IN
  IF uniqueOrderIds = {} THEN [asks |-> <<>>, bids |-> <<>>]
  ELSE [asks |-> formatSide(askPriceList, askIdLists, orderQtyMap),
        bids |-> formatSide(bidPriceList, bidIdLists, orderQtyMap)]

\* ============================================================ properties
RECURSIVE TradedQty(_, _)
TradedQty(log, orderId) ==
  IF log = <<>> THEN 0
  ELSE (IF orderId \in {Head(log).buy_order_id, Head(log).sell_order_id}
        THEN Head(log).quantity ELSE 0) + TradedQty(Tail(log), orderId)

TradesOf(orderId) ==
  {i \in 1..Len(trades) : orderId \in {trades[i].buy_order_id, trades[i].sell_order_id}}

OrderIds == 1..Len(orders)
JobDone == engine.pc = "idle"
Pos(seq, x) == CHOOSE i \in 1..Len(seq) : seq[i] = x

\* C1 Conservation: whenever the engine is between jobs, every order's ledger
\* filled_quantity equals the sum of the quantities of the trades that name it
\* as buy_order_id or sell_order_id.
C1_Conservation ==
  JobDone => \A id \in OrderIds : orders[id].filled_quantity = TradedQty(trades, id)

\* an order that took part in two trades, one as taker and one as maker or two
\* as maker, with the jobs finished
C1_Witness ==
  /\ JobDone
  /\ \E id \in OrderIds : Cardinality(TradesOf(id)) >= 2

\* C2 Price-time priority: when a trade is about to be created, no other order
\* resting on the maker's side has a strictly better price than the maker, and
\* none at the maker's price was appended to the book before the maker.
C2_PriceTimePriority ==
  engine.pc = "trade" =>
    LET maker == engine.makerOrderId IN
    \A o \in (DOMAIN hashOrders) \ {maker} :
      orders[o].side = orders[maker].side =>
        /\ IF orders[maker].side = "sell"
           THEN orders[o].price >= orders[maker].price
           ELSE orders[o].price <= orders[maker].price
        /\ (orders[o].price = orders[maker].price =>
              Pos(arrivals, maker) < Pos(arrivals, o))

\* a trade about to be created while a second order rests at the maker's price
C2_Witness ==
  /\ engine.pc = "trade"
  /\ \E o \in (DOMAIN hashOrders) \ {engine.makerOrderId} :
       /\ orders[o].side = orders[engine.makerOrderId].side
       /\ orders[o].price = orders[engine.makerOrderId].price

\* C3 Limit guard: every trade whose taker is a limit order has a price at most
\* the taker's limit for a buy taker and at least the taker's limit for a sell.
C3_LimitGuard ==
  \A i \in 1..Len(trades) :
    LET taker == orders[trades[i].taker_order_id] IN
    taker.type = "limit" =>
      IF taker.side = "buy" THEN trades[i].price <= taker.price
      ELSE trades[i].price >= taker.price

\* a limit taker that traded at a price strictly better than its limit
C3_Witness ==
  \E i \in 1..Len(trades) :
    /\ orders[trades[i].taker_order_id].type = "limit"
    /\ trades[i].price # orders[trades[i].taker_order_id].price

MaxBid == CHOOSE m \in prices["bids"] : \A n \in prices["bids"] : Num(m) >= Num(n)
MinAsk == CHOOSE m \in prices["asks"] : \A n \in prices["asks"] : Num(m) <= Num(n)

\* C4 Non-crossing book: whenever the engine is between jobs, one of the price
\* indexes bids:prices and asks:prices is empty or the highest bid price is
\* strictly below the lowest ask price.
C4_NonCrossing ==
  JobDone =>
    \/ prices["bids"] = {}
    \/ prices["asks"] = {}
    \/ Num(MaxBid) < Num(MinAsk)

\* both sides hold a price after a job in which the taker traded and then rested
C4_Witness ==
  /\ JobDone
  /\ prices["bids"] # {}
  /\ prices["asks"] # {}
  /\ \E id \in DOMAIN hashOrders : orders[id].status = "partially_filled"

\* C5 Terminal monotonicity: no step changes the ledger status of an order that
\* is filled, cancelled or rejected.
C5_TerminalMonotone ==
  [][\A id \in OrderIds :
       orders[id].status \in Terminal => orders'[id].status = orders[id].status]_vars

\* the engine is running a cancel job for an order that is already filled
C5_Witness ==
  /\ engine.pc = "cancel"
  /\ orders[engine.job.order_id].status = "filled"

\* C6 as stated: between jobs, filled iff filled_quantity = quantity, open iff
\* filled_quantity = 0, partially_filled implies 0 < filled_quantity < quantity.
C6_Original ==
  JobDone =>
    \A id \in OrderIds :
      LET o == orders[id] IN
      /\ (o.status = "filled" <=> o.filled_quantity = o.quantity)
      /\ (o.status = "open" <=> o.filled_quantity = 0)
      /\ (o.status = "partially_filled" =>
            0 < o.filled_quantity /\ o.filled_quantity < o.quantity)

\* C6 amended: between jobs, filled implies quantity - filled_quantity <= EPSILON
\* and filled_quantity = quantity implies filled; open implies filled_quantity = 0;
\* partially_filled implies filled_quantity < quantity, and filled_quantity > 0
\* unless the order is a market order.
C6_StatusQuantity ==
  JobDone =>
    \A id \in OrderIds :
      LET o == orders[id] IN
      /\ (o.status = "filled" =>
            0 <= o.quantity - o.filled_quantity /\ o.quantity - o.filled_quantity <= EPSILON)
      /\ (o.filled_quantity = o.quantity => o.status = "filled")
      /\ (o.status = "open" => o.filled_quantity = 0)
      /\ (o.status = "partially_filled" =>
            /\ 0 <= o.filled_quantity
            /\ o.filled_quantity < o.quantity
            /\ (o.filled_quantity = 0 => o.type = "market"))

\* between jobs the ledger holds an order partially_filled with nothing filled
\* and an order filled short of its quantity
C6_Witness ==
  /\ JobDone
  /\ \E id \in OrderIds :
       orders[id].status = "partially_filled" /\ orders[id].filled_quantity = 0
  /\ \E id \in OrderIds :
       orders[id].status = "filled" /\ orders[id].filled_quantity < orders[id].quantity

\* ------------------------------------------------------ Intake properties
SubIds == 1..Len(subs)
SameKeyInTTL(i, j) ==
  /\ i # j
  /\ subs[i].key # 0
  /\ subs[i].key = subs[j].key
  /\ subs[i].epoch = subs[j].epoch

\* how many submissions, finished or in flight, created key k in its TTL period e
Claimants(k, e) ==
  Cardinality({i \in SubIds : subs[i].key = k /\ subs[i].epoch = e /\ subs[i].claimed})
  + Cardinality({p \in Procs : /\ procs[p].pc # "idle"
                               /\ procs[p].payload.idempotency_key = k
                               /\ procs[p].epoch = e})

\* the ledger rows are those of the submissions that passed the INSERT, and the
\* submit jobs are those of the accepted submissions, one each
RowsAndJobsAccounted ==
  /\ Len(orders) = Cardinality({i \in SubIds : subs[i].result \in {"accepted", "queue"}})
                   + Cardinality({p \in Procs : procs[p].pc = "enqueue"})
  /\ Len(queue) = Cardinality({i \in SubIds : subs[i].result = "accepted"})
  /\ \A i \in SubIds :
       subs[i].result = "accepted" =>
         Cardinality({n \in 1..Len(queue) : queue[n].order_id = subs[i].order_id}) = 1

\* C7 as stated: of two submissions with the same key within the TTL exactly
\* one is accepted and the other is rejected as duplicate.
C7_Original ==
  \A i, j \in SubIds :
    SameKeyInTTL(i, j) =>
      \/ subs[i].result = "accepted" /\ subs[j].result = "duplicate"
      \/ subs[j].result = "accepted" /\ subs[i].result = "duplicate"

\* C7 amended: of the submissions with the same key within the TTL at most one
\* claims the key and so at most one is accepted; every other one is rejected as
\* duplicate, and no ledger row or job exists beyond those of submissions that
\* claimed their key.
C7_AtMostOneAccepted ==
  /\ \A k \in IdemKeys, e \in 0..MaxExpire : Claimants(k, e) <= 1
  /\ \A i, j \in SubIds :
       SameKeyInTTL(i, j) =>
         /\ ~(subs[i].result = "accepted" /\ subs[j].result = "accepted")
         /\ (~subs[i].claimed => subs[i].result = "duplicate")
  /\ RowsAndJobsAccounted

\* two calls with the same key overlapped: the duplicate was rejected before the
\* one that claimed the key was accepted
C7_Witness ==
  \E i, j \in SubIds :
    /\ SameKeyInTTL(i, j)
    /\ i < j
    /\ subs[i].result = "duplicate"
    /\ subs[j].result = "accepted"

C9_JobAfterInsert ==
  /\ \A n \in 1..Len(queue) :
       queue[n].name = "process-order" =>
         /\ queue[n].order_id \in OrderIds
         /\ queue[n].data.order_id = queue[n].order_id
         /\ queue[n].data.status = "open"
         /\ Num(queue[n].data.filled_quantity) = 0
         /\ queue[n].data = SavedOrder(queue[n].order_id, orders[queue[n].order_id])
  /\ \A p \in Procs :
       procs[p].pc = "enqueue" =>
         /\ procs[p].order_id \in OrderIds
         /\ orders[procs[p].order_id].status = "open"
         /\ orders[procs[p].order_id].filled_quantity = 0
         /\ \A n \in 1..Len(queue) : queue[n].order_id # procs[p].order_id
  /\ \A i \in SubIds :
       subs[i].result = "accepted" =>
         Cardinality({n \in 1..Len(queue) : queue[n].order_id = subs[i].order_id}) = 1

\* two accepted submissions whose jobs wait in the order opposite to their rows
C9_Witness ==
  /\ Len(queue) >= 2
  /\ queue[1].order_id > queue[2].order_id

\* C10 A submission whose INSERT failed has no row and no job, its key is in the
\* store for the rest of the TTL, and every other submission with that key in
\* the TTL was rejected as duplicate.
C10_StorageErrorKeepsKey ==
  /\ \A i \in SubIds :
       subs[i].result = "storage" =>
         /\ subs[i].claimed
         /\ (epoch[subs[i].key] = subs[i].epoch => subs[i].key \in idem)
         /\ \A j \in SubIds : SameKeyInTTL(i, j) => subs[j].result = "duplicate"
         /\ \A n \in 1..Len(queue) : queue[n].order_id # subs[i].order_id
  /\ Len(queue) = Cardinality({i \in SubIds : subs[i].result = "accepted"})
  /\ Len(orders) <= Cardinality({i \in SubIds : subs[i].result \notin {"storage"}})
                    + Cardinality({p \in Procs : procs[p].pc = "enqueue"})

\* an INSERT failed and a later submission with the same key was turned away
C10_Witness ==
  \E i, j \in SubIds :
    /\ SameKeyInTTL(i, j)
    /\ i < j
    /\ subs[i].result = "storage"
    /\ subs[j].result = "duplicate"

\* C11 The gate fails closed: no submitOrder call gets past checkIdempotency
\* while Redis is unreachable; a submission that arrived during the outage was
\* rejected with the gate's error, claimed no key, has no ledger row and no job,
\* and the rows and jobs that exist are those of submissions the gate admitted.
C11_GateFailsClosed ==
  /\ \A p \in Procs : procs[p].pc # "idle" => procs[p].gateOk
  /\ \A i \in SubIds :
       subs[i].result = "gate" => ~subs[i].claimed /\ subs[i].order_id = 0
  /\ RowsAndJobsAccounted

\* a submission was rejected during an outage and the retry with the same key,
\* made once Redis answered again, was accepted
C11_Witness ==
  \E i, j \in SubIds :
    /\ SameKeyInTTL(i, j)
    /\ i < j
    /\ subs[i].result = "gate"
    /\ subs[j].result = "accepted"

\* C12 as stated: a finished cancelOrder call returned not_found when the ledger
\* had no row with the id, conflict when the row it fetched was filled,
\* cancelled or rejected, and otherwise enqueued exactly one cancel job and
\* returned the row.
C12_Original ==
  \A i \in 1..Len(cancs) :
    LET c == cancs[i] IN
    IF ~c.found THEN c.result = "not_found" /\ c.enqueued = 0
    ELSE IF c.order.status \in Terminal THEN c.result = "conflict" /\ c.enqueued = 0
    ELSE c.result = "accepted" /\ c.enqueued = 1

\* C13 Jobs run one at a time in enqueue order: the worker starts a job only
\* when it runs none, the job it starts is the oldest waiting one, and every
\* change to the ledger, the trade log or the book is made by a step of the job
\* in progress, which after the step is still that job or has completed.
C13_SerialFifo ==
  [][/\ (engine'.job # engine.job /\ engine'.job # NoJob) =>
          /\ engine.pc = "idle"
          /\ queue # <<>>
          /\ engine'.job = [name |-> Head(queue).name, order_id |-> Head(queue).order_id]
          /\ queue' = Tail(queue)
     /\ ((\E id \in OrderIds : orders'[id] # orders[id])
          \/ trades' # trades \/ bookVars' # bookVars) =>
          /\ engine.pc # "idle"
          /\ engine'.job \in {engine.job, NoJob}]_vars

\* a job is in progress and has traded while two later jobs wait
C13_Witness ==
  /\ engine.pc = "makerPg"
  /\ Len(queue) = MaxQueue
  /\ queue[1] # queue[2]

InSomeList(orderId) ==
  \E bs \in BookSides, m \in PriceStrs :
    \E n \in 1..Len(lists[bs][m]) : lists[bs][m][n] = orderId

\* C14 as stated: between jobs, an order the engine has cancelled is in no
\* price-level list and not in the orders hash, and if the list addOrderToBook
\* appended it to is empty, its price is not in the side's price set.
C14_Original ==
  JobDone =>
    \A id \in OrderIds :
      orders[id].status = "cancelled" =>
        /\ ~InSomeList(id)
        /\ id \notin DOMAIN hashOrders
        /\ (lists[BookSide(orders[id].side)][JsStr(orders[id].price)] = <<>> =>
              JsStr(orders[id].price) \notin prices[BookSide(orders[id].side)])

\* C15 The step that completes a cancel job for an order it found in the orders
\* hash leaves the order cancelled in the ledger with the filled_quantity the
\* ledger already held, which is the sum of the order's trades; and no other
\* step makes an order cancelled.
C15_CancelKeepsFilled ==
  [][/\ (engine.pc = "cancelPg" /\ engine'.pc = "idle") =>
          LET id == engine.job.order_id IN
          /\ orders'[id].status = "cancelled"
          /\ orders'[id].filled_quantity = orders[id].filled_quantity
          /\ orders'[id].filled_quantity = TradedQty(trades', id)
     /\ \A id \in OrderIds :
          (orders[id].status # "cancelled" /\ orders'[id].status = "cancelled") =>
             engine.pc = "cancelPg" /\ id = engine.job.order_id]_vars

\* between jobs, an order that had traded as a maker is cancelled with the
\* quantity it had traded, less than its quantity
C15_Witness ==
  /\ JobDone
  /\ \E id \in OrderIds :
       /\ orders[id].status = "cancelled"
       /\ orders[id].filled_quantity > 0
       /\ orders[id].filled_quantity = TradedQty(trades, id)

\* C16 The engine's step on a cancel job whose order is not in the orders hash
\* completes the job and changes no ledger row, no trade and nothing of the
\* book.
C16_AbsentCancelNoOp ==
  [][(engine.pc = "cancel" /\ ~InLiveBook(engine.job.order_id) /\ engine' # engine) =>
       /\ engine' = IdleEngine
       /\ orders' = orders
       /\ trades' = trades
       /\ queue' = queue
       /\ bookVars' = bookVars]_vars

\* the engine has taken a cancel job for an order that has left the orders
\* hash, while another order rests in the book
C16_Witness ==
  /\ engine.pc = "cancel"
  /\ ~InLiveBook(engine.job.order_id)
  /\ Len(trades) >= 1
  /\ DOMAIN hashOrders # {}

Processed(orderId) ==
  /\ \A n \in 1..Len(queue) :
       ~(queue[n].name = "process-order" /\ queue[n].order_id = orderId)
  /\ ~(engine.job.name = "process-order" /\ engine.job.order_id = orderId)

\* C18 as stated: a market order whose submit job is done is in no list and not
\* in the orders hash, and its ledger status is filled if filled_quantity equals
\* quantity and partially_filled otherwise.
C18_Original ==
  \A id \in OrderIds :
    (orders[id].type = "market" /\ Processed(id)) =>
      /\ ~InSomeList(id)
      /\ id \notin DOMAIN hashOrders
      /\ orders[id].status =
           (IF orders[id].filled_quantity = orders[id].quantity
            THEN "filled" ELSE "partially_filled")

\* C18 amended: a market order whose submit job is done is in no list and not in
\* the orders hash, its filled_quantity is the sum of its trades, and its ledger
\* status is filled or partially_filled: filled when nothing of its quantity is
\* unfilled, partially_filled when more than EPSILON is unfilled.
C18_MarketNeverRests ==
  \A id \in OrderIds :
    (orders[id].type = "market" /\ Processed(id)) =>
      /\ ~InSomeList(id)
      /\ id \notin DOMAIN hashOrders
      /\ orders[id].filled_quantity = TradedQty(trades, id)
      /\ orders[id].status \in {"filled", "partially_filled"}
      /\ (orders[id].quantity - orders[id].filled_quantity = 0 =>
            orders[id].status = "filled")
      /\ (orders[id].quantity - orders[id].filled_quantity > EPSILON =>
            orders[id].status = "partially_filled")

\* a market order exhausted the book after trading: partially_filled with part
\* of its quantity, while an order rests on its own side
C18_Witness ==
  \E id \in OrderIds :
    /\ orders[id].type = "market"
    /\ Processed(id)
    /\ orders[id].status = "partially_filled"
    /\ orders[id].filled_quantity > 0
    /\ prices[BookSide(orders[id].side)] # {}

\* the step that completes the submit job of a limit order
LimitJobCompletes ==
  /\ engine.job.name = "process-order"
  /\ engine.taker.type = "limit"
  /\ engine'.pc = "idle"

RestedAtTail(id) ==
  LET o == orders'[id]
      level == lists'[BookSide(o.side)][JsStr(o.price)] IN
  /\ level # <<>>
  /\ level[Len(level)] = id
  /\ \A n \in 1..(Len(level) - 1) : level[n] # id
  /\ id \in DOMAIN hashOrders'
  /\ hashOrders'[id] = [quantity |-> o.quantity - o.filled_quantity,
                        total_filled_quantity |-> o.filled_quantity]
  /\ JsStr(o.price) \in prices'[BookSide(o.side)]
  /\ o.status = (IF TradedQty(trades', id) > 0 THEN "partially_filled" ELSE "open")

NotRestedFilled(id) ==
  /\ id \notin DOMAIN hashOrders'
  /\ \A bs \in BookSides, m \in PriceStrs :
       \A n \in 1..Len(lists'[bs][m]) : lists'[bs][m][n] # id
  /\ orders'[id].status = "filled"

\* C19 as stated: when the submit job of a limit order completes, the order is
\* at the tail of the list of its side and price with its remaining and filled
\* quantities stored and is partially_filled or open in the ledger if any of its
\* quantity is unfilled, and it is out of the book and filled if none is.
C19_Original ==
  [][LimitJobCompletes =>
       LET id == engine.job.order_id IN
       /\ orders'[id].filled_quantity = TradedQty(trades', id)
       /\ IF orders'[id].quantity - orders'[id].filled_quantity > 0
          THEN RestedAtTail(id)
          ELSE NotRestedFilled(id)]_vars

\* C19 amended: when the submit job of a limit order completes, the order is at
\* the tail of the list of its side and price with its remaining and filled
\* quantities stored and is partially_filled or open in the ledger if more than
\* EPSILON of its quantity is unfilled; it is out of the book and filled if
\* nothing is unfilled; and it is one or the other if at most EPSILON is.
C19_LimitRestsAtTail ==
  [][LimitJobCompletes =>
       LET id == engine.job.order_id
           remaining == orders'[id].quantity - orders'[id].filled_quantity IN
       /\ orders'[id].filled_quantity = TradedQty(trades', id)
       /\ (remaining > EPSILON => RestedAtTail(id))
       /\ (remaining = 0 => NotRestedFilled(id))
       /\ (RestedAtTail(id) \/ NotRestedFilled(id))]_vars

\* between jobs, the limit order that rested last is the last of two orders at
\* its price, and another order has rested after trading
C19_Witness ==
  /\ JobDone
  /\ \E bs \in BookSides, m \in PriceStrs :
       /\ Len(lists[bs][m]) >= 2
       /\ LET id == lists[bs][m][Len(lists[bs][m])] IN
          /\ id \in DOMAIN hashOrders
          /\ orders[id].status = "open"
          /\ id = arrivals[Len(arrivals)]
  /\ \E id \in DOMAIN hashOrders : hashOrders[id].total_filled_quantity > 0

\* C20 as stated: while the trade of a matching step has not been created, the
\* book is as the step found it: the maker is still at the head of the list of
\* its price.
C20_Original ==
  engine.pc = "trade" =>
    LET level == lists[OpposingSide(engine.taker.side)][JsStr(Num(engine.bestPrice))] IN
    level # <<>> /\ Head(level) = engine.makerOrderId

\* C21 as stated: in a trade step, once the maker's entry in the orders hash has
\* been removed or rewritten, the ledger already holds the maker's update of
\* this step; and once the taker's ledger update of the step is made, the maker
\* has been put back in its list if it was only partially filled.
C21_Original ==
  /\ engine.pc \in {"makerPush", "makerPg"} =>
       orders[engine.makerOrderId].filled_quantity = MakerNewFilledQty
  /\ engine.pc = "cleanup" =>
       /\ orders[engine.makerOrderId].filled_quantity = MakerNewFilledQty
       /\ orders[engine.taker.order_id].filled_quantity = engine.taker.filled_quantity
       /\ (MakerNewRemainingQty > EPSILON =>
             Head(lists[OpposingSide(engine.taker.side)][JsStr(Num(engine.bestPrice))])
               = engine.makerOrderId)

\* C22 as stated: every trade in the ledger was announced by a new_trade event
\* and by order_update events for its two orders, and every order the engine
\* cancelled by an order_update event.
C22_Original ==
  /\ \A i \in 1..Len(trades) :
       /\ \E n \in 1..Len(events) : events[n].event = "new_trade"
       /\ \E n \in 1..Len(events) :
            events[n].event = "order_update" /\ events[n].order_id = trades[i].buy_order_id
       /\ \E n \in 1..Len(events) :
            events[n].event = "order_update" /\ events[n].order_id = trades[i].sell_order_id
       /\ \E n \in 1..Len(events) : events[n].event = "orderbook_delta"
  /\ \A id \in OrderIds :
       orders[id].status = "cancelled" =>
         \E n \in 1..Len(events) :
           events[n].event = "order_update" /\ events[n].order_id = id

\* sum of the remaining quantities the orders hash stores for the ids of a list
RECURSIVE LevelRemaining(_)
LevelRemaining(list) ==
  IF list = <<>> THEN 0
  ELSE (IF Head(list) \in DOMAIN hashOrders THEN hashOrders[Head(list)].quantity ELSE 0)
       + LevelRemaining(Tail(list))

\* C23 as stated: whenever the engine is between jobs, for every side and
\* price the side's depth entry for the price equals the sum of the remaining
\* quantities the orders hash stores for the ids in the price's list.
C23_Original ==
  JobDone =>
    \A bs \in BookSides, m \in PriceStrs :
      depth[bs][m] = LevelRemaining(lists[bs][m])

\* the places (side, price, position) at which an id is listed
Listings(orderId) ==
  {<<bs, m, n>> \in BookSides \X PriceStrs \X (1..MaxSubs) :
     n <= Len(lists[bs][m]) /\ lists[bs][m][n] = orderId}

\* C24 as stated: whenever the engine is between jobs, an order id is listed
\* at exactly one place of exactly one price-level list if and only if it has
\* an entry in the orders hash, and every entry of the hash stores a remaining
\* quantity above 0.
C24_Original ==
  JobDone =>
    /\ \A id \in OrderIds :
         (Cardinality(Listings(id)) = 1) <=> (id \in DOMAIN hashOrders)
    /\ \A id \in DOMAIN hashOrders : hashOrders[id].quantity > 0

RECURSIVE SumQuantity(_, _)
SumQuantity(levelSeq, index) ==
  IF index = 0 THEN 0 ELSE SumQuantity(levelSeq, index - 1) + levelSeq[index].quantity

\* the properties C26 asks of one side of the returned book
SideWellFormed(levelSeq, bookSide, levels) ==
  /\ Len(levelSeq) <= levels
  /\ \A i \in 1..Len(levelSeq) :
       /\ levelSeq[i].quantity > 0
       /\ levelSeq[i].quantity = LevelRemaining(lists[bookSide][JsStr(levelSeq[i].price)])
       /\ levelSeq[i].cumulative = SumQuantity(levelSeq, i)
       /\ \A j \in 1..Len(levelSeq) :
            i < j => IF bookSide = "asks" THEN levelSeq[i].price < levelSeq[j].price
                                         ELSE levelSeq[i].price > levelSeq[j].price

\* C26 Order book view: in every state of the book and for every number of
\* levels asked for, getFormattedOrderBook returns asks in ascending and bids in
\* descending price order, each level's quantity is the sum of the remaining
\* quantities the orders hash stores for the ids of the level's list, its
\* cumulative is the running sum of the returned levels' quantities on its
\* side, and no returned level has quantity 0.
C26_OrderBookView ==
  \A levels \in 1..MaxLevels :
    /\ SideWellFormed(getFormattedOrderBook(levels).asks, "asks", levels)
    /\ SideWellFormed(getFormattedOrderBook(levels).bids, "bids", levels)

\* a book whose view has two ask levels, the second cumulating both, the first
\* summing two orders
C26_Witness ==
  /\ Len(getFormattedOrderBook(MaxLevels).asks) = 2
  /\ getFormattedOrderBook(MaxLevels).asks[2].cumulative >
       getFormattedOrderBook(MaxLevels).asks[2].quantity
  /\ Len(lists["asks"][JsStr(1)]) = 2
  /\ Head(lists["asks"][JsStr(1)]) \in DOMAIN hashOrders
  /\ getFormattedOrderBook(MaxLevels).asks[1].quantity >
       hashOrders[Head(lists["asks"][JsStr(1)])].quantity

\* C27 as stated: a step in which a ledger call of the engine fails ends the
\* job's work (the engine is free, ledger and book are as they were) and leaves
\* the same job in the queue to be processed again.
C27_Original ==
  [][Len(failed') > Len(failed) =>
       /\ engine' = IdleEngine
       /\ <<orders', trades', hashOrders', prices', lists', depth'>>
            = <<orders, trades, hashOrders, prices, lists, depth>>
       /\ \E n \in 1..Len(queue') :
            /\ queue'[n].name = failed'[Len(failed')].name
            /\ queue'[n].order_id = failed'[Len(failed')].order_id]_vars

\* C28 Termination: with no failing call, a job the engine has taken is
\* finished: from any book the queue's jobs left behind, orphan price levels
\* and orphan order ids included, the matching loop exits and the engine
\* becomes free again.
C28_JobTerminates == (engine.pc # "idle") ~> (engine.pc = "idle")

\* the loop meeting an orphan price level: a price in the sorted set whose list
\* is empty, while the taker still wants quantity
C28_Witness ==
  /\ engine.pc = "loop"
  /\ Remaining(engine.taker) > EPSILON
  /\ \E m \in prices[OpposingSide(engine.taker.side)] :
       /\ IsBest(OpposingSide(engine.taker.side), m)
       /\ lists[OpposingSide(engine.taker.side)][m] = <<>>
       /\ (engine.taker.type = "limit" => CanMatch(engine.taker, Num(m)))

\* what the book holds for an order: its remaining quantity in the orders hash
\* if it is also listed in a level, 0 otherwise
BookClaimable(orderId) ==
  IF orderId \in DOMAIN hashOrders /\ Listings(orderId) # {}
  THEN hashOrders[orderId].quantity ELSE 0

\* what the ledger holds for an order: quantity - filled_quantity if its status
\* is not terminal, 0 otherwise
LedgerClaimable(orderId) ==
  IF orders[orderId].status \in Terminal THEN 0
  ELSE orders[orderId].quantity - orders[orderId].filled_quantity

InTradeStep ==
  engine.pc \in {"trade", "depth", "maker", "makerPush", "makerPg", "takerPg", "cleanup"}

\* C29 as stated: at every await inside a trade step, every order that has
\* rested, other than the taker, is in its level and in the orders hash with
\* remaining r exactly when the ledger shows it non-terminal with
\* quantity - filled_quantity = r.
C29_Original ==
  InTradeStep =>
    \A id \in OrderIds :
      (id # engine.taker.order_id /\ \E n \in 1..Len(arrivals) : arrivals[n] = id) =>
        BookClaimable(id) = LedgerClaimable(id)

\* C30 Cancel against fill, decided by queue order: (a) the cancel job of an
\* order still in the book ends with the order cancelled in the ledger, and
\* from then on the order's row does not change and no new trade names it;
\* (b) a cancel job taken for an order the ledger shows filled changes neither
\* ledger nor book.
C30_QueueOrderDecides ==
  [][/\ (engine.pc = "cancelPg" /\ engine'.pc = "idle") =>
          orders'[engine.job.order_id].status = "cancelled"
     /\ \A id \in OrderIds :
          orders[id].status = "cancelled" =>
            /\ orders'[id] = orders[id]
            /\ \A i \in 1..Len(trades') :
                 id \in {trades'[i].buy_order_id, trades'[i].sell_order_id} => i <= Len(trades)
     /\ (/\ engine.pc = "cancel" /\ engine'.pc # "cancel"
         /\ orders[engine.job.order_id].status = "filled") =>
          /\ engine'.pc = "idle"
          /\ <<orders', trades', hashOrders', prices', lists', depth'>>
               = <<orders, trades, hashOrders, prices, lists, depth>>
    ]_vars

\* an order cancelled while resting whose id a later taker has popped from its
\* level without a trade, the taker resting or unfilled instead
C30_Witness ==
  /\ JobDone
  /\ \E id \in OrderIds :
       /\ orders[id].status = "cancelled"
       /\ \E n \in 1..Len(arrivals) : arrivals[n] = id
       /\ ~InSomeList(id)
       /\ TradesOf(id) = {}

\* C31 as stated: in every trade step the maker chosen is, among the orders
\* resting at its price, the one whose ledger row was inserted first (rows are
\* numbered in insertion order, which is the order of created_at), however the
\* submitOrder calls interleave.
C31_Original ==
  engine.pc = "trade" =>
    \A n \in 1..Len(lists[OpposingSide(engine.taker.side)][engine.bestPrice]) :
      LET id == lists[OpposingSide(engine.taker.side)][engine.bestPrice][n] IN
      id \in DOMAIN hashOrders => engine.makerOrderId < id

\* the maker of the current trade step is out of the book and filled in the
\* ledger with f + q
MakerGoneFilled ==
  /\ engine.makerOrderId \notin DOMAIN hashOrders
  /\ ~InSomeList(engine.makerOrderId)
  /\ orders[engine.makerOrderId].status = "filled"
  /\ orders[engine.makerOrderId].filled_quantity
       = engine.makerData.total_filled_quantity + engine.tradeQty

\* the maker of the current trade step is at the front of its level with
\* (r - q, f + q) and partially filled in the ledger with f + q
MakerBackAtFront ==
  /\ engine.makerOrderId \in DOMAIN hashOrders
  /\ hashOrders[engine.makerOrderId] =
       [quantity |-> engine.makerData.quantity - engine.tradeQty,
        total_filled_quantity |-> engine.makerData.total_filled_quantity + engine.tradeQty]
  /\ lists[OpposingSide(engine.taker.side)][engine.bestPrice] # <<>>
  /\ Head(lists[OpposingSide(engine.taker.side)][engine.bestPrice]) = engine.makerOrderId
  /\ orders[engine.makerOrderId].status = "partially_filled"
  /\ orders[engine.makerOrderId].filled_quantity
       = engine.makerData.total_filled_quantity + engine.tradeQty

\* C32 as stated: once the maker's updates of a trade step have landed, the
\* maker is out of the book and filled if r - q = 0, and otherwise back at the
\* front of its level and partially filled.
C32_Original ==
  engine.pc = "takerPg" =>
    IF engine.makerData.quantity - engine.tradeQty = 0
    THEN MakerGoneFilled ELSE MakerBackAtFront

\* C32 Maker update: once the maker's updates of a trade step have landed, the
\* maker is out of the book and filled with f + q if r - q = 0, it is back at
\* the front of its level with (r - q, f + q) and partially filled with f + q if
\* r - q is above EPSILON, and it is one of the two in between.
C32_MakerUpdate ==
  engine.pc = "takerPg" =>
    /\ engine.makerData.quantity - engine.tradeQty = 0 => MakerGoneFilled
    /\ engine.makerData.quantity - engine.tradeQty > EPSILON => MakerBackAtFront
    /\ MakerGoneFilled \/ MakerBackAtFront

\* a maker partially filled and put back in front of another order of its level
C32_Witness ==
  /\ engine.pc = "takerPg"
  /\ engine.makerData.quantity - engine.tradeQty > EPSILON
  /\ Len(lists[OpposingSide(engine.taker.side)][engine.bestPrice]) >= 2

\* the price the matching loop would work on next: the best opposite price,
\* while the taker still wants quantity and its limit allows the price
LoopPrice(m) ==
  /\ engine.pc = "loop"
  /\ Remaining(engine.taker) > EPSILON
  /\ m \in prices[OpposingSide(engine.taker.side)]
  /\ IsBest(OpposingSide(engine.taker.side), m)
  /\ (engine.taker.type = "limit" => CanMatch(engine.taker, Num(m)))

OrphanLevelMet(m) ==
  LoopPrice(m) /\ lists[OpposingSide(engine.taker.side)][JsStr(Num(m))] = <<>>

OrphanIdMet(m) ==
  /\ LoopPrice(m)
  /\ lists[OpposingSide(engine.taker.side)][JsStr(Num(m))] # <<>>
  /\ Head(lists[OpposingSide(engine.taker.side)][JsStr(Num(m))]) \notin DOMAIN hashOrders

LoopMoves == <<engine, prices, lists>>' # <<engine, prices, lists>>

\* C33 Orphans do not abort a match: an iteration of the loop that finds the
\* list of the best opposite price empty removes just that price from the
\* sorted set and goes on with the same taker; an iteration that pops an id
\* with no entry in the orders hash drops the id and goes on with the same
\* taker; neither touches the ledger; no trade is created with a maker that
\* has no entry in the orders hash; and the job that met the orphan completes.
C33_OrphansSkipped ==
  /\ [][\A m \in PriceStrs :
          /\ (OrphanLevelMet(m) /\ LoopMoves) =>
               /\ engine' = engine
               /\ prices' = [prices EXCEPT ![OpposingSide(engine.taker.side)] = @ \ {m}]
               /\ <<lists', orders', trades', hashOrders'>> = <<lists, orders, trades, hashOrders>>
          /\ (OrphanIdMet(m) /\ LoopMoves) =>
               /\ engine' = engine
               /\ lists' = [lists EXCEPT ![OpposingSide(engine.taker.side)][JsStr(Num(m))] = Tail(@)]
               /\ <<prices', orders', trades', hashOrders'>> = <<prices, orders, trades, hashOrders>>
          /\ Len(trades') > Len(trades) => engine.makerOrderId \in DOMAIN hashOrders
       ]_vars
  /\ (\E m \in PriceStrs : OrphanLevelMet(m) \/ OrphanIdMet(m)) ~> (engine.pc = "idle")

\* the loop about to pop an id that has no entry in the orders hash, with
\* another price behind the best one
C33_Witness ==
  \E m \in PriceStrs :
    /\ OrphanIdMet(m)
    /\ Cardinality(prices[OpposingSide(engine.taker.side)]) = 2

\* C34 Level cleanup: whenever the engine is between jobs, a price is in a
\* side's sorted set exactly when the list of that side and price is not
\* empty.
C34_LevelCleanup ==
  JobDone =>
    \A bs \in BookSides, m \in PriceStrs :
      (m \in prices[bs]) <=> (lists[bs][m] # <<>>)

\* between jobs, after a trade emptied a level and after the id a cancel job
\* left behind was popped and its level cleaned up: nothing is left in the book
C34_Witness ==
  /\ JobDone
  /\ Len(trades) >= 1
  /\ \A bs \in BookSides : prices[bs] = {}
  /\ \E id \in OrderIds :
       /\ orders[id].status = "cancelled"
       /\ \E n \in 1..Len(arrivals) : arrivals[n] = id

\* C35 Trade sides: in every state, every trade of the ledger names as
\* buy_order_id an order whose side is buy and as sell_order_id an order whose
\* side is sell, and the two are different orders.
C35_TradeSides ==
  \A i \in 1..Len(trades) :
    /\ trades[i].buy_order_id \in OrderIds
    /\ trades[i].sell_order_id \in OrderIds
    /\ orders[trades[i].buy_order_id].side = "buy"
    /\ orders[trades[i].sell_order_id].side = "sell"
    /\ trades[i].buy_order_id # trades[i].sell_order_id

\* a ledger with a trade whose taker bought and a trade whose taker sold
C35_Witness ==
  /\ \E i \in 1..Len(trades) : trades[i].taker_order_id = trades[i].buy_order_id
  /\ \E i \in 1..Len(trades) : trades[i].taker_order_id = trades[i].sell_order_id

\* C36 Fill bound: in every state, states in the middle of a trade step
\* included, every order's ledger filled_quantity is at least 0 and at most
\* its quantity.
C36_FillBound ==
  \A id \in OrderIds :
    /\ orders[id].filled_quantity >= 0
    /\ orders[id].filled_quantity <= orders[id].quantity

\* the middle of a trade step with one order filled to its quantity and
\* another one filled in part
C36_Witness ==
  /\ InTradeStep
  /\ \E id \in OrderIds : orders[id].filled_quantity = orders[id].quantity
  /\ \E id \in OrderIds :
       /\ orders[id].filled_quantity > 0
       /\ orders[id].filled_quantity < orders[id].quantity

\* every entry of the orders hash agrees with the ledger row of its order
HashAgreesWithLedger ==
  \A id \in DOMAIN hashOrders :
    /\ orders[id].type = "limit"
    /\ orders[id].status \in {"open", "partially_filled"}
    /\ hashOrders[id].total_filled_quantity = orders[id].filled_quantity
    /\ hashOrders[id].quantity = orders[id].quantity - orders[id].filled_quantity

\* C37 as stated: whenever the engine is between jobs, every entry of the
\* orders hash agrees with the ledger row of its order, a limit order that is
\* open or partially filled, and no order with a terminal ledger status is in
\* the orders hash or in any list.
C37_Original ==
  JobDone =>
    /\ HashAgreesWithLedger
    /\ \A id \in OrderIds :
         orders[id].status \in Terminal =>
           id \notin DOMAIN hashOrders /\ ~InSomeList(id)

\* the order of a trade that was resting when the trade was made
MakerOf(trade) ==
  IF trade.taker_order_id = trade.buy_order_id
  THEN trade.sell_order_id ELSE trade.buy_order_id

\* C38 Trade price: in every state, the price of every trade of the ledger is
\* the limit price of its maker, the order that was resting.
C38_MakerPrice ==
  \A i \in 1..Len(trades) :
    trades[i].price = orders[MakerOf(trades[i])].price

\* a trade whose taker is a limit order with a price other than the maker's
C38_Witness ==
  \E i \in 1..Len(trades) :
    /\ orders[trades[i].taker_order_id].type = "limit"
    /\ orders[trades[i].taker_order_id].price # orders[MakerOf(trades[i])].price

\* C39 Best-first sweep: when the engine creates a trade, every earlier trade
\* of the same taker has a price that is not above the new one if the taker
\* buys and not below it if the taker sells, and if the price differs the list
\* of the earlier price on the opposite side is empty.
C39_SweepBestFirst ==
  [][Len(trades') > Len(trades) =>
       LET new == trades'[Len(trades')]
           takerSide == orders[new.taker_order_id].side
       IN \A i \in 1..Len(trades) :
            trades[i].taker_order_id = new.taker_order_id =>
              /\ (takerSide = "buy" => trades[i].price <= new.price)
              /\ (takerSide = "sell" => trades[i].price >= new.price)
              /\ (trades[i].price # new.price =>
                    lists[OpposingSide(takerSide)][JsStr(trades[i].price)] = <<>>)
    ]_vars

\* a selling taker that has traded at two prices
C39_Witness ==
  \E i, j \in 1..Len(trades) :
    /\ i < j
    /\ trades[i].taker_order_id = trades[j].taker_order_id
    /\ orders[trades[i].taker_order_id].side = "sell"
    /\ trades[i].price > trades[j].price

====
